---- MODULE Spec2Model ----
(***************************************************************************)
(* World Bank Data360 Explorer (src/main.py): the Data360 client           *)
(* (Data360Client.search, Data360Client.get_data), the fan-out fetch       *)
(* fetch_data_cached, the cached search search_indicators_filtered and the *)
(* st.cache_data(ttl=3600) memoisation around them.                        *)
(*                                                                         *)
(* The remote endpoint is the environment: every request is answered by a  *)
(* failure (transport error, non-2xx status) or by a page of any size with *)
(* any count field.  An observation is named by the selector's region and  *)
(* the position at which the endpoint served it in its session.            *)
(***************************************************************************)
EXTENDS Integers, Sequences, FiniteSets, TLC

\* ------------------------------------------------------------------ bounds

\* Largest page the unscripted endpoint returns.
MaxPage == 2
\* Largest count field the unscripted endpoint reports.
MaxCount == 2
\* Largest small budget a direct caller of get_data passes.
MaxBudget == 2
\* Requests one pagination session may issue in the model.
MaxRequests == 2
\* Most regions in one countries argument.
MaxCountries == 3
\* Calls of cached functions in one run of the app.
MaxCalls == 2
\* Advances of the clock in one run of the app.
MaxTicks == 2
\* Longest query string a caller types.
MaxQueryLen == 2
\* Most records a search response carries.
MaxMatches == 1
\* Most identifiers the /indicators listing returns.
MaxIds == 2
MaxLimit == 1

\* ------------------------------------------------------- program constants

\* get_data's default max_records.
DefaultMaxRecords == 10000
\* The budget fetch_data_cached passes for every region.
FanOutMaxRecords == 5000

\* get_indicators_with_metadata's default limit.
DefaultLimit == 500

\* Python's None, for total_count before the first response.
None == -1

\* ---------------------------------------------------------------- helpers

Min(a, b) == IF a < b THEN a ELSE b

Max(a, b) == IF a > b THEN a ELSE b

\* Python's s[:n].
PySlice(s, n) ==
    IF n >= 0 THEN SubSeq(s, 1, Min(n, Len(s)))
    ELSE SubSeq(s, 1, Max(0, Len(s) + n))

RECURSIVE SumSeq(_)
SumSeq(s) == IF s = <<>> THEN 0 ELSE s[1] + SumSeq(Tail(s))

\* The n observations the endpoint serves for region r at offset off.
Batch(r, off, n) == [i \in 1..n |-> <<r, off + i>>]

GetCountOrBudget(resp) == IF resp.has_count THEN resp.count ELSE DefaultMaxRecords

\* result.get("count", 0) of a response envelope.
GetCount(resp) == IF resp.has_count THEN resp.count ELSE 0

\* A string is the sequence of its characters.
Whitespace == {" ", "\t"}

\* Python's str.strip().
RECURSIVE LStrip(_)
LStrip(q) == IF q # <<>> /\ q[1] \in Whitespace THEN LStrip(Tail(q)) ELSE q

RECURSIVE RStrip(_)
RStrip(q) ==
    IF q # <<>> /\ q[Len(q)] \in Whitespace
    THEN RStrip(SubSeq(q, 1, Len(q) - 1))
    ELSE q

Strip(q) == RStrip(LStrip(q))

\* Line 37: the term that replaces a wildcard or empty search.
DefaultTerm == <<"G", "D", "P">>

NormalizeQueryNoStrip(q) ==
    IF q = <<>> \/ q = <<"*">> THEN DefaultTerm ELSE q

\* Lines 36-37 (and 1087-1088): the query a search sends.
NormalizeQuery(q) ==
    IF q = <<>> \/ Strip(q) = <<>> \/ q = <<"*">> THEN DefaultTerm ELSE q

\* The characters of the queries a caller types.
QueryChars == {" ", "\t", "*", "a"}

\* The queries a caller passes: every string of at most MaxQueryLen
\* characters, and the default term itself.
Queries ==
    UNION { [1..n -> QueryChars] : n \in 0..MaxQueryLen } \cup {DefaultTerm}

\* The mock endpoint of the pagination scenario: page sizes for top = 100.
MockPages == <<100, 100, 37, 0>>

\* The count fields the mock endpoint may report.
MockCounts == {0, 100, 237, 300}

Regions == {"USA", "XYZ"}

\* max_records values a caller passes to get_data.
Budgets == (0..MaxBudget) \cup {237, FanOutMaxRecords, DefaultMaxRecords}

\* ------------------------------------------------------------------ state

VARIABLES
    pc,            \* get_data: "idle", "single", "while", "await", "break",
                   \* "returned", "raised"
    auto_paginate, \* the auto_paginate argument of the call
    body,          \* the latest response of the call: its count field and
                   \* its page size
    endpoint,      \* "any", or "mock" (the scripted page sizes MockPages)
    ref_area,      \* the ref_area argument of the call
    params,        \* get_data's params dict
    sent,          \* the params of every request sent, in order
    max_records,   \* the session's budget
    all_data,      \* get_data's accumulator
    skip,          \* get_data's skip
    total_count,   \* get_data's total_count (None until the first response)
    requests,      \* the skip parameter of every request sent, in order
    pages,         \* the size of every page received, in order
    paced,         \* a time.sleep has run since the last request
    result,        \* get_data's return value, once returned
    spc,           \* search: "idle", "await", "returned", "raised"
    query,         \* the query argument of the search call
    posts,         \* the payload of every POST /searchv2 of the search call, in order
    answers,       \* how each POST ended, in order: "ok" or "error"
    sresult,       \* search's return value, once returned
    fpc,           \* fetch_data_cached: "idle", "for", "call", "returned"
    countries,     \* the countries argument
    fi,            \* the position of the for loop in countries
    merged,        \* fetch_data_cached's all_data
    outcomes,      \* how get_data ended for each region so far, in order
    fresult,       \* fetch_data_cached's return value, once returned
    ipc,           \* search_indicators_filtered: "idle", "call", "returned"
    iquery,        \* its query argument
    iresult,       \* its return value <<indicators, count>>, once returned
    mpc,           \* get_indicators_with_metadata: "idle", "search", "list", "returned"
    database_id,   \* its database_id argument
    limit,         \* its limit argument
    lists,         \* how each GET /indicators of the call ended: "ok" or "error"
    mresult,       \* its return value, once returned
    cache,         \* st.cache_data's entries, per function: [args, value,
                   \* created_at], and the function that wrote the entry (by)
    now,           \* the clock, in seconds
    ticks,         \* how often the clock has advanced
    cpc,           \* the cached call in progress: "idle" or "miss"
    ckey,          \* the key of the cached call in progress
    log            \* the cached calls so far, in order: the key, whether the
                   \* cache answered and from which function's entry, the age
                   \* of the key's entry at the call (-1: none), whether a
                   \* request of the body failed, the value returned and the
                   \* time the call ended

getDataVars == <<pc, auto_paginate, body, endpoint, ref_area, params, sent,
                 max_records, all_data, skip, total_count,
                 requests, pages, paced, result>>

searchVars == <<spc, query, posts, answers, sresult>>

fetchVars == <<fpc, countries, fi, merged, outcomes, fresult>>

filteredVars == <<ipc, iquery, iresult>>

metaVars == <<mpc, database_id, limit, lists, mresult>>

cacheVars == <<cache, now, ticks, cpc, ckey, log>>

vars == <<getDataVars, searchVars, fetchVars, filteredVars, metaVars, cacheVars>>

NoResult == [count |-> 0, total_count |-> None, value |-> <<>>]

NoBody == [has_count |-> FALSE, count |-> 0, n |-> 0]

\* ------------------------------------------------------ Data360Client.get_data

\* The responses the endpoint may give to the request in flight.
Responses ==
    IF pc \notin {"await", "single"} THEN {}
    ELSE IF endpoint = "mock"
    THEN { [has_count |-> h, count |-> c, n |-> MockPages[Len(requests)]] :
             h \in BOOLEAN, c \in MockCounts }
    ELSE { [has_count |-> h, count |-> c, n |-> n] :
             h \in BOOLEAN, c \in 0..MaxCount, n \in 0..MaxPage }

\* The requests the model follows a session for: the mock endpoint's script,
\* MaxRequests for the unscripted endpoint.
RequestCap == IF endpoint = "mock" THEN Len(MockPages) ELSE MaxRequests

\* No params dict: no call is running.
NoParams == <<>>

\* Lines 87-96: the query parameters of a call for region r whose indicator
\* and time period arguments are given.
BuildParams(r) ==
    [DATABASE_ID |-> "WB_WDI", INDICATOR |-> "WB_WDI_SP_POP_TOTL", REF_AREA |-> r,
     timePeriodFrom |-> "2000", timePeriodTo |-> "2020"]

SetSkipOnly(p, s) == [skip |-> s]

\* Line 108: params["skip"] = skip.
SetSkip(p, s) ==
    [k \in DOMAIN p \cup {"skip"} |-> IF k = "skip" THEN s ELSE p[k]]

\* Lines 87-96 and 103-105: the params and the accumulator of a paginated call.
GetDataBegin(ep, r, mr) ==
    /\ pc = "idle"
    /\ pc' = "while"
    /\ auto_paginate' = TRUE
    /\ body' = NoBody
    /\ endpoint' = ep
    /\ ref_area' = r
    /\ params' = BuildParams(r)
    /\ max_records' = mr
    /\ all_data' = <<>>
    /\ skip' = 0
    /\ total_count' = None
    /\ requests' = <<>>
    /\ sent' = <<>>
    /\ pages' = <<>>
    /\ result' = NoResult
    /\ UNCHANGED paced

\* A caller of the client calls get_data(..., auto_paginate=True, max_records=mr).
GetDataCall(ep, r, mr) ==
    /\ GetDataBegin(ep, r, mr)
    /\ UNCHANGED <<searchVars, fetchVars, filteredVars, metaVars, cacheVars>>

LoopTestInclusive(data, budget) == Len(data) <= budget

\* Line 107: the loop test.
LoopTest(data, budget) == Len(data) < budget

\* Lines 107-109: the loop test holds and the request is sent.
GetDataRequest ==
    /\ pc = "while"
    /\ LoopTest(all_data, max_records)
    /\ Len(requests) < RequestCap
    /\ params' = SetSkip(params, skip)
    /\ sent' = Append(sent, SetSkip(params, skip))
    /\ requests' = Append(requests, skip)
    /\ paced' = FALSE
    /\ pc' = "await"
    /\ UNCHANGED <<auto_paginate, body, endpoint, ref_area, max_records, all_data, skip,
                   total_count, pages, result>>
    /\ UNCHANGED <<searchVars, fetchVars, filteredVars, metaVars, cacheVars>>

\* Line 107: the loop test fails.
GetDataExit ==
    /\ pc = "while"
    /\ ~LoopTest(all_data, max_records)
    /\ pc' = "break"
    /\ UNCHANGED <<auto_paginate, body, endpoint, ref_area, max_records, all_data, skip,
                   total_count, requests, pages, paced, result>>
    /\ UNCHANGED <<params, sent>>
    /\ UNCHANGED <<searchVars, fetchVars, filteredVars, metaVars, cacheVars>>

CaptureTotalAlways(total, resp) == GetCount(resp)

\* Lines 113-114: total_count is taken from the first response.
CaptureTotal(total, resp) == IF total = None THEN GetCount(resp) ELSE total

NotBatchNever(batch_data) == FALSE

\* Line 117: not batch_data.
NotBatch(batch_data) == batch_data = <<>>

StopAfterBudgetOnly(data, total, budget) == Len(data) >= budget

\* The test of line 122.
StopAfter(data, total, budget) == Len(data) >= total \/ Len(data) >= budget

NextSkipSame(s, batch_data) == s

NextSkipByPageSize(s, batch_data) == s + 100

\* Line 125.
NextSkip(s, batch_data) == s + Len(batch_data)

\* Lines 110-126: a 2xx response is decoded and accumulated.
GetDataResponse(resp) ==
    /\ pc = "await"
    /\ LET total == CaptureTotal(total_count, resp)
           batch_data == Batch(ref_area, skip, resp.n)
           extended == all_data \o batch_data
       IN  /\ total_count' = total
           /\ pages' = Append(pages, resp.n)
           /\ IF NotBatch(batch_data)
              THEN /\ pc' = "break"
                   /\ UNCHANGED <<all_data, skip, paced>>
              ELSE /\ all_data' = extended
                   /\ IF StopAfter(extended, total, max_records)
                      THEN /\ pc' = "break"
                           /\ UNCHANGED <<skip, paced>>
                      ELSE /\ skip' = NextSkip(skip, batch_data)
                           /\ paced' = TRUE
                           /\ pc' = "while"
    /\ body' = resp
    /\ UNCHANGED <<auto_paginate, endpoint, ref_area, max_records, requests, result>>
    /\ UNCHANGED <<params, sent>>
    /\ UNCHANGED <<searchVars, fetchVars, filteredVars, metaVars, cacheVars>>

GetDataErrorSwallowed ==
    /\ pc = "await"
    /\ pc' = "break"
    /\ UNCHANGED <<auto_paginate, body, endpoint, ref_area, max_records, all_data,
                   skip, total_count,
                   requests, pages, paced, result>>
    /\ UNCHANGED <<params, sent>>
    /\ UNCHANGED <<searchVars, fetchVars, filteredVars, metaVars, cacheVars>>

\* Lines 109-110: the request fails or raise_for_status raises; the exception
\* leaves get_data and its locals are lost.
GetDataError ==
    /\ pc = "await"
    /\ pc' = "raised"
    /\ all_data' = <<>>
    /\ skip' = 0
    /\ total_count' = None
    /\ params' = NoParams
    /\ UNCHANGED <<auto_paginate, body, endpoint, ref_area, sent, max_records,
                   requests, pages, paced, result>>
    /\ UNCHANGED <<searchVars, fetchVars, filteredVars, metaVars, cacheVars>>

GetDataResultUnsliced ==
    [count |-> Len(all_data), total_count |-> total_count, value |-> all_data]

\* Lines 128-132.
GetDataResult ==
    [count |-> Len(all_data),
     total_count |-> total_count,
     value |-> PySlice(all_data, max_records)]

GetDataReturn ==
    /\ pc = "break"
    /\ result' = GetDataResult
    /\ pc' = "returned"
    /\ UNCHANGED <<auto_paginate, body, endpoint, ref_area, max_records, all_data,
                   skip, total_count,
                   requests, pages, paced>>
    /\ UNCHANGED <<params, sent>>
    /\ UNCHANGED <<searchVars, fetchVars, filteredVars, metaVars, cacheVars>>

\* The decoded body of a response: the observations the endpoint serves for
\* region r from offset off, and the count field when the body carries one.
Json(resp, r, off) ==
    IF resp.has_count
    THEN [count |-> resp.count, value |-> Batch(r, off, resp.n)]
    ELSE [value |-> Batch(r, off, resp.n)]

\* Lines 86-99: a call with auto_paginate=False sends one request, whose
\* params carry no skip.
GetDataSingleCall(ep, r, mr) ==
    /\ pc = "idle"
    /\ pc' = "single"
    /\ auto_paginate' = FALSE
    /\ body' = NoBody
    /\ endpoint' = ep
    /\ ref_area' = r
    /\ params' = BuildParams(r)
    /\ max_records' = mr
    /\ all_data' = <<>>
    /\ skip' = 0
    /\ total_count' = None
    /\ requests' = <<None>>
    /\ sent' = <<BuildParams(r)>>
    /\ pages' = <<>>
    /\ result' = NoResult
    /\ UNCHANGED paced
    /\ UNCHANGED <<searchVars, fetchVars, filteredVars, metaVars, cacheVars>>

SingleResultSliced(json, budget) ==
    [json EXCEPT !.value = PySlice(json.value, budget)]

\* Line 101: return response.json().
SingleResult(json, budget) == json

\* Lines 100-101: a 2xx response is decoded and returned.
GetDataSingleResponse(resp) ==
    /\ pc = "single"
    /\ body' = resp
    /\ pages' = Append(pages, resp.n)
    /\ result' = SingleResult(Json(resp, ref_area, 0), max_records)
    /\ pc' = "returned"
    /\ UNCHANGED <<auto_paginate, endpoint, ref_area, max_records, all_data, skip,
                   total_count, requests, paced>>
    /\ UNCHANGED <<params, sent>>
    /\ UNCHANGED <<searchVars, fetchVars, filteredVars, metaVars, cacheVars>>

\* Lines 99-100: the request fails or raise_for_status raises.
GetDataSingleError ==
    /\ pc = "single"
    /\ pc' = "raised"
    /\ UNCHANGED <<auto_paginate, body, endpoint, ref_area, max_records, all_data,
                   skip, total_count, requests, pages, paced, result>>
    /\ UNCHANGED <<params, sent>>
    /\ UNCHANGED <<searchVars, fetchVars, filteredVars, metaVars, cacheVars>>

\* ------------------------------------------------------ Data360Client.search

\* A record of the search index: its series_description/idno ("" when the
\* record carries none).
Matches == {[idno |-> "I1"], [idno |-> ""]}

\* The decoded bodies of a 2xx search response: the value list and the
\* @odata.count field, which may be missing.
SearchResponses ==
    IF spc # "await" THEN {}
    ELSE { [value |-> v, has_count |-> h, count |-> c] :
             v \in UNION { [1..n -> Matches] : n \in 0..MaxMatches },
             h \in BOOLEAN, c \in 0..MaxMatches }

\* Line 62: the empty result returned on error.
EmptyResult == [value |-> <<>>, has_count |-> TRUE, count |-> 0]

\* Lines 39-50: the request body.
Payload(q, top, skp, filter_by) ==
    [search |-> NormalizeQuery(q), top |-> top, skip |-> skp, filter |-> filter_by]

\* Lines 33-53: the query is normalised and the POST is sent.
SearchBegin(q, top, filter_by) ==
    /\ spc = "idle"
    /\ query' = q
    /\ posts' = <<Payload(q, top, 0, filter_by)>>
    /\ answers' = <<>>
    /\ sresult' = EmptyResult
    /\ spc' = "await"

\* A caller of the client calls search(q, top, filter_by=filter_by).
SearchCall(q, top, filter_by) ==
    /\ SearchBegin(q, top, filter_by)
    /\ UNCHANGED <<getDataVars, fetchVars, filteredVars, metaVars, cacheVars>>

\* Lines 53-55: a 2xx response is decoded and returned.
SearchResponse(resp) ==
    /\ spc = "await"
    /\ sresult' = resp
    /\ answers' = Append(answers, "ok")
    /\ spc' = "returned"
    /\ UNCHANGED <<query, posts>>
    /\ UNCHANGED <<getDataVars, fetchVars, filteredVars, metaVars, cacheVars>>

SearchErrorRaised ==
    /\ spc = "await"
    /\ answers' = Append(answers, "error")
    /\ spc' = "raised"
    /\ UNCHANGED <<query, posts, sresult>>
    /\ UNCHANGED <<getDataVars, fetchVars, filteredVars, metaVars, cacheVars>>

\* Lines 56-62: any exception of the POST, of raise_for_status or of the
\* decoding is caught and the empty result is returned.
SearchError ==
    /\ spc = "await"
    /\ sresult' = EmptyResult
    /\ answers' = Append(answers, "error")
    /\ spc' = "returned"
    /\ UNCHANGED <<query, posts>>
    /\ UNCHANGED <<getDataVars, fetchVars, filteredVars, metaVars, cacheVars>>

\* ---------------------------------------------------------- fetch_data_cached

\* The frame of get_data is gone once its caller has its result or exception.
GetDataGone ==
    /\ pc' = "idle"
    /\ all_data' = <<>>
    /\ skip' = 0
    /\ total_count' = None
    /\ requests' = <<>>
    /\ pages' = <<>>
    /\ result' = NoResult
    /\ body' = NoBody
    /\ params' = NoParams
    /\ sent' = <<>>
    /\ UNCHANGED <<auto_paginate, endpoint, ref_area, max_records, paced>>

\* Lines 1144-1145: the body of fetch_data_cached starts.
FetchBegin(cs) ==
    /\ fpc = "idle"
    /\ pc = "idle"
    /\ countries' = cs
    /\ fi' = 1
    /\ merged' = <<>>
    /\ outcomes' = <<>>
    /\ fresult' = <<>>
    /\ fpc' = "for"

\* Lines 1147-1157: the next country's get_data call.
FetchGetData ==
    /\ fpc = "for"
    /\ fi <= Len(countries)
    /\ GetDataBegin("any", countries[fi], FanOutMaxRecords)
    /\ fpc' = "call"
    /\ UNCHANGED <<countries, fi, merged, outcomes, fresult>>
    /\ UNCHANGED <<searchVars, filteredVars, metaVars, cacheVars>>

FetchExtendDedup ==
    /\ fpc = "call"
    /\ pc = "returned"
    /\ merged' = merged \o SelectSeq(result.value,
                                    LAMBDA o : \A p \in 1..Len(merged) : merged[p] # o)
    /\ outcomes' = Append(outcomes, [ok |-> TRUE, value |-> result.value])
    /\ fi' = fi + 1
    /\ fpc' = "for"
    /\ GetDataGone
    /\ UNCHANGED <<countries, fresult>>
    /\ UNCHANGED <<searchVars, filteredVars, metaVars, cacheVars>>

FetchExtendPrepend ==
    /\ fpc = "call"
    /\ pc = "returned"
    /\ merged' = result.value \o merged
    /\ outcomes' = Append(outcomes, [ok |-> TRUE, value |-> result.value])
    /\ fi' = fi + 1
    /\ fpc' = "for"
    /\ GetDataGone
    /\ UNCHANGED <<countries, fresult>>
    /\ UNCHANGED <<searchVars, filteredVars, metaVars, cacheVars>>

FetchExtendEarly ==
    /\ fpc = "call"
    /\ pc \in {"await", "returned"}
    /\ merged' = merged \o result.value
    /\ outcomes' = Append(outcomes, [ok |-> TRUE, value |-> result.value])
    /\ fi' = fi + 1
    /\ fpc' = "for"
    /\ GetDataGone
    /\ UNCHANGED <<countries, fresult>>
    /\ UNCHANGED <<searchVars, filteredVars, metaVars, cacheVars>>

\* Line 1158: data.get("value", []) is appended.
FetchExtend ==
    /\ fpc = "call"
    /\ pc = "returned"
    /\ merged' = merged \o result.value
    /\ outcomes' = Append(outcomes, [ok |-> TRUE, value |-> result.value])
    /\ fi' = fi + 1
    /\ fpc' = "for"
    /\ GetDataGone
    /\ UNCHANGED <<countries, fresult>>
    /\ UNCHANGED <<searchVars, filteredVars, metaVars, cacheVars>>

FetchExceptAbort ==
    /\ fpc = "call"
    /\ pc = "raised"
    /\ fpc' = "raised"
    /\ GetDataGone
    /\ UNCHANGED <<countries, fi, merged, outcomes, fresult>>
    /\ UNCHANGED <<searchVars, filteredVars, metaVars, cacheVars>>

\* Lines 1159-1160: except Exception: pass.
FetchExcept ==
    /\ fpc = "call"
    /\ pc = "raised"
    /\ outcomes' = Append(outcomes, [ok |-> FALSE, value |-> <<>>])
    /\ fi' = fi + 1
    /\ fpc' = "for"
    /\ GetDataGone
    /\ UNCHANGED <<countries, merged, fresult>>
    /\ UNCHANGED <<searchVars, filteredVars, metaVars, cacheVars>>

\* Line 1162.
FetchReturn ==
    /\ fpc = "for"
    /\ fi > Len(countries)
    /\ fresult' = merged
    /\ fpc' = "returned"
    /\ UNCHANGED <<countries, fi, merged, outcomes>>
    /\ UNCHANGED <<getDataVars, searchVars, filteredVars, metaVars, cacheVars>>

\* ------------------------------------------------- search_indicators_filtered

\* Lines 1115-1128: the records that carry an idno.
Indicators(value) == SelectSeq(value, LAMBDA item : item.idno # "")

\* Line 1130: result.get("@odata.count", len(indicators)).
ODataCount(res) == IF res.has_count THEN res.count ELSE Len(Indicators(res.value))

\* Lines 1085-1113: the query is normalised and client.search is called with
\* top = limit and no filter (themes, databases and organizations are None).
FilteredBegin(q) ==
    /\ ipc = "idle"
    /\ SearchBegin(NormalizeQuery(q), 100, "")
    /\ iquery' = q
    /\ iresult' = <<<<>>, 0>>
    /\ ipc' = "call"

\* Lines 1115-1130: the indicators and the count are returned.
FilteredReturn ==
    /\ ipc = "call"
    /\ spc = "returned"
    /\ iresult' = <<Indicators(sresult.value), ODataCount(sresult)>>
    /\ ipc' = "returned"
    /\ spc' = "idle"
    /\ UNCHANGED iquery
    /\ UNCHANGED <<query, posts, answers, sresult>>
    /\ UNCHANGED <<getDataVars, fetchVars, metaVars, cacheVars>>

\* ----------------------------------------------- get_indicators_with_metadata

\* Line 1028: the filter of the search.
DatabaseFilter(db) == <<"series_description/database_id eq", db>>

\* Lines 1033-1052: one entry per record that carries an idno.
MetaIndicators(value) ==
    LET with_idno == SelectSeq(value, LAMBDA item : item.idno # "")
    IN  [i \in 1..Len(with_idno) |-> [id |-> with_idno[i].idno]]

ListedIndicatorsAll(indicator_ids, lim) ==
    [i \in 1..Len(indicator_ids) |-> [id |-> indicator_ids[i]]]

\* Lines 1060-1071: one entry per listed identifier, limit at most.
ListedIndicators(indicator_ids, lim) ==
    LET ids == PySlice(indicator_ids, lim)
    IN  [i \in 1..Len(ids) |-> [id |-> ids[i]]]

\* The identifiers of a database, in the order GET /indicators lists them.
ListedIds == <<"I1", "I2", "I3", "I4">>

\* The listings GET /indicators may return: the first n identifiers.
IndicatorIds == { SubSeq(ListedIds, 1, n) : n \in 0..Min(MaxIds, Len(ListedIds)) }

\* Lines 1023-1029: client.search("*", top=min(limit, 1000), filter_by=...).
MetaBegin(db, lim) ==
    /\ mpc = "idle"
    /\ SearchBegin(<<"*">>, Min(lim, 1000), DatabaseFilter(db))
    /\ database_id' = db
    /\ limit' = lim
    /\ lists' = <<>>
    /\ mresult' = <<>>
    /\ mpc' = "search"

\* Lines 1031-1055: the search returned records with an idno; they are
\* returned, limit at most.
MetaReturnSearched ==
    /\ mpc = "search"
    /\ spc = "returned"
    /\ sresult.value # <<>>
    /\ MetaIndicators(sresult.value) # <<>>
    /\ mresult' = PySlice(MetaIndicators(sresult.value), limit)
    /\ mpc' = "returned"
    /\ spc' = "idle"
    /\ UNCHANGED <<database_id, limit, lists>>
    /\ UNCHANGED <<query, posts, answers, sresult>>
    /\ UNCHANGED <<getDataVars, fetchVars, filteredVars, cacheVars>>

\* Lines 1032-1058: the search returned no record with an idno;
\* client.list_indicators sends GET /indicators.
MetaFallback ==
    /\ mpc = "search"
    /\ spc = "returned"
    /\ sresult.value = <<>> \/ MetaIndicators(sresult.value) = <<>>
    /\ mpc' = "list"
    /\ spc' = "idle"
    /\ UNCHANGED <<database_id, limit, lists, mresult>>
    /\ UNCHANGED <<query, posts, answers, sresult>>
    /\ UNCHANGED <<getDataVars, fetchVars, filteredVars, cacheVars>>

\* Lines 68-70 and 1058-1073: the listing is decoded and returned.
MetaListResponse(indicator_ids) ==
    /\ mpc = "list"
    /\ lists' = Append(lists, "ok")
    /\ mresult' = ListedIndicators(indicator_ids, limit)
    /\ mpc' = "returned"
    /\ UNCHANGED <<database_id, limit>>
    /\ UNCHANGED <<getDataVars, searchVars, fetchVars, filteredVars, cacheVars>>

\* Lines 68-69 and 1074-1076: the listing fails; the exception is caught and
\* the empty list is returned.
MetaListError ==
    /\ mpc = "list"
    /\ lists' = Append(lists, "error")
    /\ mresult' = <<>>
    /\ mpc' = "returned"
    /\ UNCHANGED <<database_id, limit>>
    /\ UNCHANGED <<getDataVars, searchVars, fetchVars, filteredVars, cacheVars>>

\* -------------------------------------------------- st.cache_data(ttl=3600)

ttlTwoHours == 2 * 3600

\* Lines 1079 and 1140: the ttl of the cached functions, in seconds.
ttl == 3600

\* The cached functions; each has a cache of its own, keyed by its arguments.
CachedFunctions ==
    {"fetch_data_cached", "search_indicators_filtered", "get_indicators_with_metadata"}

\* An entry may be read while now - created_at < ttl.
Fresh(e, t) == t - e.created_at < ttl

CacheReadAnyFunction(c, k, t) ==
    UNION { {e \in c[f] : e.args = k[2] /\ Fresh(e, t)} : f \in CachedFunctions }

\* The entries a read of key k = <<function, arguments>> finds at time t.
CacheRead(c, k, t) == {e \in c[k[1]] : e.args = k[2] /\ Fresh(e, t)}

\* The cache after value v is written for key k at time t.
CacheWrite(c, k, v, t) ==
    [c EXCEPT ![k[1]] =
        {e \in c[k[1]] : e.args # k[2]}
            \cup {[args |-> k[2], value |-> v, created_at |-> t, by |-> k[1]]}]

\* The age of key k's entry at time t, -1 when there is none.
AgeOf(c, k, t) ==
    IF \E e \in c[k[1]] : e.args = k[2]
    THEN t - (CHOOSE e \in c[k[1]] : e.args = k[2]).created_at
    ELSE -1

\* The steps by which the clock advances between two readings.
Steps == {1, ttl - 1}

\* Time passes.  The clock is read when a cached function is called and
\* when its result is written, so time advances before these.
Tick(d) ==
    /\ ticks < MaxTicks
    /\ \/ cpc = "idle"
       \/ cpc = "miss" /\ (fpc = "returned" \/ ipc = "returned" \/ mpc = "returned")
    /\ now' = now + d
    /\ ticks' = ticks + 1
    /\ UNCHANGED <<cache, cpc, ckey, log>>
    /\ UNCHANGED <<getDataVars, searchVars, fetchVars, filteredVars, metaVars>>

\* A call of a cached function that finds a fresh entry returns its value.
CachedHit(k) ==
    /\ cpc = "idle"
    /\ Len(log) < MaxCalls
    /\ \E e \in CacheRead(cache, k, now) :
          log' = Append(log, [key |-> k, hit |-> TRUE, from |-> e.by, failed |-> FALSE,
                              age |-> AgeOf(cache, k, now),
                              done |-> TRUE, value |-> e.value, at |-> now])
    /\ UNCHANGED <<cache, now, ticks, cpc, ckey>>
    /\ UNCHANGED <<getDataVars, searchVars, fetchVars, filteredVars, metaVars>>

\* A call that finds no fresh entry: the function's body runs.
CachedMiss(k) ==
    /\ cpc = "idle"
    /\ Len(log) < MaxCalls
    /\ CacheRead(cache, k, now) = {}
    /\ log' = Append(log, [key |-> k, hit |-> FALSE, from |-> "", failed |-> FALSE,
                           age |-> AgeOf(cache, k, now),
                           done |-> FALSE, value |-> <<>>, at |-> now])
    /\ cpc' = "miss"
    /\ ckey' = k
    /\ UNCHANGED <<cache, now, ticks>>

\* Line 1140: fetch_data_cached(..., countries=cs, ...) is called and misses.
FetchMiss(cs) ==
    /\ CachedMiss(<<"fetch_data_cached", cs>>)
    /\ FetchBegin(cs)
    /\ UNCHANGED <<getDataVars, searchVars, filteredVars, metaVars>>

\* Line 1079: search_indicators_filtered(q) is called and misses.
FilteredMiss(q) ==
    /\ CachedMiss(<<"search_indicators_filtered", q>>)
    /\ FilteredBegin(q)
    /\ UNCHANGED <<getDataVars, fetchVars, metaVars>>

\* Lines 1020-1021: get_indicators_with_metadata(db) is called and misses.
MetaMiss(db) ==
    /\ CachedMiss(<<"get_indicators_with_metadata", db>>)
    /\ MetaBegin(db, DefaultLimit)
    /\ UNCHANGED <<getDataVars, fetchVars, filteredVars>>

\* The value the body in progress has returned.
Returned ==
    IF ckey[1] = "fetch_data_cached" THEN fresult
    ELSE IF ckey[1] = "search_indicators_filtered" THEN iresult
    ELSE mresult

\* A request of the body in progress has failed.
RequestFailed ==
    \/ \E i \in 1..Len(answers) : answers[i] = "error"
    \/ \E i \in 1..Len(lists) : lists[i] = "error"
    \/ \E i \in 1..Len(outcomes) : ~outcomes[i].ok

\* The body has returned: its value is written and returned, and the frame
\* of the body is gone.
CachedStore ==
    /\ cpc = "miss"
    /\ \/ ckey[1] = "fetch_data_cached" /\ fpc = "returned"
       \/ ckey[1] = "search_indicators_filtered" /\ ipc = "returned"
       \/ ckey[1] = "get_indicators_with_metadata" /\ mpc = "returned"
    /\ cache' = CacheWrite(cache, ckey, Returned, now)
    /\ log' = [log EXCEPT ![Len(log)].done = TRUE, ![Len(log)].value = Returned,
                           ![Len(log)].at = now, ![Len(log)].failed = RequestFailed]
    /\ cpc' = "idle"
    /\ ckey' = <<>>
    /\ fpc' = "idle"
    /\ ipc' = "idle"
    /\ mpc' = "idle"
    /\ fresult' = <<>>
    /\ iresult' = <<<<>>, 0>>
    /\ mresult' = <<>>
    /\ countries' = <<>> /\ fi' = 1 /\ merged' = <<>> /\ outcomes' = <<>>
    /\ query' = <<>> /\ posts' = <<>> /\ answers' = <<>> /\ sresult' = EmptyResult
    /\ UNCHANGED spc
    /\ iquery' = <<>>
    /\ database_id' = <<>> /\ limit' = DefaultLimit /\ lists' = <<>>
    /\ UNCHANGED <<now, ticks>>
    /\ UNCHANGED getDataVars

\* ------------------------------------------------------------ specification

Init ==
    /\ pc = "idle"
    /\ auto_paginate = TRUE
    /\ body = NoBody
    /\ endpoint = "any"
    /\ ref_area = "USA"
    /\ params = NoParams
    /\ sent = <<>>
    /\ max_records = 0
    /\ all_data = <<>>
    /\ skip = 0
    /\ total_count = None
    /\ requests = <<>>
    /\ pages = <<>>
    /\ paced = FALSE
    /\ result = NoResult
    /\ spc = "idle"
    /\ query = <<>>
    /\ posts = <<>>
    /\ answers = <<>>
    /\ sresult = EmptyResult
    /\ fpc = "idle"
    /\ countries = <<>>
    /\ fi = 1
    /\ merged = <<>>
    /\ outcomes = <<>>
    /\ fresult = <<>>
    /\ ipc = "idle"
    /\ iquery = <<>>
    /\ iresult = <<<<>>, 0>>
    /\ mpc = "idle"
    /\ database_id = <<>>
    /\ limit = DefaultLimit
    /\ lists = <<>>
    /\ mresult = <<>>
    /\ cache = [f \in CachedFunctions |-> {}]
    /\ now = 0
    /\ ticks = 0
    /\ cpc = "idle"
    /\ ckey = <<>>
    /\ log = <<>>

\* The filter expressions a caller passes ("" for None).
Filters == {"", "series_description/database_id eq 'WB_WDI'"}

\* No function of the client or of the app has been called.
NothingCalled ==
    pc = "idle" /\ spc = "idle" /\ ipc = "idle" /\ fpc = "idle" /\ mpc = "idle"

\* One call of get_data, of search, or of search_indicators_filtered with
\* nothing cached.
Next ==
    \/ \E ep \in {"any", "mock"}, r \in Regions, mr \in Budgets :
          NothingCalled /\ GetDataCall(ep, r, mr)
    \/ \E q \in Queries, f \in Filters :
          NothingCalled /\ SearchCall(q, 100, f)
    \/ \E q \in Queries :
          /\ NothingCalled
          /\ FilteredBegin(q)
          /\ UNCHANGED <<getDataVars, fetchVars, metaVars, cacheVars>>
    \/ FilteredReturn
    \/ \E resp \in SearchResponses : SearchResponse(resp)
    \/ SearchError
    \/ \E ep \in {"any", "mock"}, r \in Regions, mr \in Budgets :
          NothingCalled /\ GetDataSingleCall(ep, r, mr)
    \/ \E resp \in Responses : GetDataSingleResponse(resp)
    \/ GetDataSingleError
    \/ GetDataRequest
    \/ GetDataExit
    \/ \E resp \in Responses : GetDataResponse(resp)
    \/ GetDataError
    \/ GetDataReturn

Spec == Init /\ [][Next]_vars

\* Paginated calls whose budget is within the requests the model follows, so
\* that no session is cut short by RequestCap.
NextPaginated ==
    \/ \E ep \in {"any", "mock"}, r \in Regions, mr \in 0..Min(MaxBudget, MaxRequests) :
          NothingCalled /\ GetDataCall(ep, r, mr)
    \/ GetDataRequest
    \/ GetDataExit
    \/ \E resp \in Responses : GetDataResponse(resp)
    \/ GetDataError
    \/ GetDataReturn

\* Line 109: session.get blocks until the call returns or fails (timeout).
HttpCallEnds == (\E resp \in Responses : GetDataResponse(resp)) \/ GetDataError

\* get_data runs on: the interpreter executes its next statement, and every
\* HTTP call returns or fails.
SpecPaginated ==
    /\ Init
    /\ [][NextPaginated]_vars
    /\ WF_vars(GetDataRequest)
    /\ WF_vars(GetDataExit)
    /\ WF_vars(HttpCallEnds)
    /\ WF_vars(GetDataReturn)

\* The country lists a caller passes: up to MaxCountries regions.
CountryLists == UNION { [1..n -> Regions] : n \in 0..MaxCountries }

\* The body of fetch_data_cached runs once, on one list of countries.  With
\* max_records = 5000 the loop test of get_data holds whenever it is reached.
NextFanOut ==
    \/ \E cs \in CountryLists :
          /\ FetchBegin(cs)
          /\ UNCHANGED <<getDataVars, searchVars, filteredVars, metaVars, cacheVars>>
    \/ FetchGetData
    \/ GetDataRequest
    \/ \E resp \in Responses : GetDataResponse(resp)
    \/ GetDataError
    \/ GetDataReturn
    \/ FetchExtend
    \/ FetchExcept
    \/ FetchReturn

SpecFanOut == Init /\ [][NextFanOut]_vars

\* The arguments the pages of the app pass to the cached functions.
AppCountryLists == {<<"USA">>}

AppQueries == {<<"*">>}

AppKeys ==
    {<<"fetch_data_cached", cs>> : cs \in AppCountryLists}
        \cup {<<"search_indicators_filtered", q>> : q \in AppQueries}

\* The app: calls of the cached functions, one at a time, while time passes.
NextApp ==
    \/ \E d \in Steps : Tick(d)
    \/ \E k \in AppKeys : CachedHit(k)
    \/ \E cs \in AppCountryLists : FetchMiss(cs)
    \/ \E q \in AppQueries : FilteredMiss(q)
    \/ CachedStore
    \/ FetchGetData
    \/ GetDataRequest
    \/ \E resp \in Responses : GetDataResponse(resp)
    \/ GetDataError
    \/ GetDataReturn
    \/ FetchExtend
    \/ FetchExcept
    \/ FetchReturn
    \/ \E resp \in SearchResponses : SearchResponse(resp)
    \/ SearchError
    \/ FilteredReturn

SpecApp == Init /\ [][NextApp]_vars

\* A database id, which a user may also type as a query.
AppDatabases == {<<"W", "B">>}

SearchKeys ==
    {<<"search_indicators_filtered", q>> : q \in AppDatabases}
        \cup {<<"get_indicators_with_metadata", db>> : db \in AppDatabases}

\* The indicator pages of the app: the search and the metadata listing are
\* called, one at a time, with a database id as their argument, while time
\* passes.
NextSearchPages ==
    \/ \E d \in Steps : Tick(d)
    \/ \E k \in SearchKeys : CachedHit(k)
    \/ \E q \in AppDatabases : FilteredMiss(q)
    \/ \E db \in AppDatabases : MetaMiss(db)
    \/ CachedStore
    \/ \E resp \in SearchResponses : SearchResponse(resp)
    \/ SearchError
    \/ FilteredReturn
    \/ MetaReturnSearched
    \/ MetaFallback
    \/ \E ids \in IndicatorIds : MetaListResponse(ids)
    \/ MetaListError

SpecSearchPages == Init /\ [][NextSearchPages]_vars

\* The limits get_indicators_with_metadata is called with: small ones, the
\* 200 of line 1699 and the default.
Limits == (0..MaxLimit) \cup {200, DefaultLimit}

\* One call of get_indicators_with_metadata with nothing cached.
NextMeta ==
    \/ \E db \in AppDatabases, lim \in Limits :
          /\ NothingCalled
          /\ MetaBegin(db, lim)
          /\ UNCHANGED <<getDataVars, fetchVars, filteredVars, cacheVars>>
    \/ \E resp \in SearchResponses : SearchResponse(resp)
    \/ SearchError
    \/ MetaReturnSearched
    \/ MetaFallback
    \/ \E ids \in IndicatorIds : MetaListResponse(ids)
    \/ MetaListError

SpecMeta == Init /\ [][NextMeta]_vars

\* ------------------------------------------------------------------ claims

\* The page size of the endpoint's window (top): 100 for the mock endpoint.
WindowSize == IF endpoint = "mock" THEN 100 ELSE MaxPage

\* C1: the observation list a paginated fetch returns is never longer than
\* max_records, whatever pages the endpoint served.
C1_ValueWithinBudget ==
    (auto_paginate /\ pc = "returned") => Len(result.value) <= max_records

\* C1 witness: the last page overshot the budget and the value was cut to it.
C1_Witness ==
    /\ auto_paginate
    /\ pc = "returned"
    /\ Len(all_data) > max_records
    /\ max_records > 0
    /\ Len(result.value) = max_records

\* Every request carried, as skip, the number of observations received in the
\* pages before it.
SkipIsReceived ==
    \A i \in 1..Len(requests) :
        auto_paginate => requests[i] = SumSeq(SubSeq(pages, 1, Min(i - 1, Len(pages))))

\* The mock scenario ran in full: four requests, 237 observations, the
\* fourth page empty.
MockRanInFull ==
    /\ requests = <<0, 100, 200, 237>>
    /\ pages = MockPages
    /\ Len(all_data) = 237
    /\ Len(result.value) = 237

\* C2 as stated, for a budget above 237 and a first response that reports
\* the 237 records the endpoint holds: skip is the number of observations
\* received so far, and the session against the mock endpoint (pages 100,
\* 100, 37, 0) ends after four requests at offsets 0, 100, 200, 237 with
\* 237 observations.
C2_Original ==
    /\ SkipIsReceived
    /\ (auto_paginate /\ endpoint = "mock" /\ pc = "returned"
            /\ max_records > 237 /\ total_count = 237)
          => MockRanInFull

\* C2 amended: skip is the number of observations received so far; a
\* session against the mock endpoint with a budget above 237 runs in full
\* when the first response reports a count above 237, and ends after the
\* third request (offsets 0, 100, 200, 237 observations) when it reports 237.
C2_SkipByReceived ==
    /\ SkipIsReceived
    /\ (auto_paginate /\ endpoint = "mock" /\ pc = "returned" /\ max_records > 237) =>
          /\ total_count > 237 => MockRanInFull
          /\ total_count = 237 =>
                /\ requests = <<0, 100, 200>>
                /\ pages = <<100, 100, 37>>
                /\ Len(result.value) = 237

\* C2 witness: the mock scenario ran in full.
C2_Witness ==
    auto_paginate /\ endpoint = "mock" /\ pc = "returned" /\ MockRanInFull

\* C3 as stated: once the k-th page is shorter than the window or empty, no
\* (k+1)-th request is issued.
C3_Original ==
    \A k \in 1..Len(pages) : (auto_paginate /\ pages[k] < WindowSize) => Len(requests) <= k

\* C3 amended: once the k-th page is empty, no (k+1)-th request is issued.
C3_EmptyPageEnds ==
    \A k \in 1..Len(pages) : (auto_paginate /\ pages[k] = 0) => Len(requests) <= k

\* C3 witness: a session that ended on an empty page after a non-empty one.
C3_Witness ==
    /\ auto_paginate
    /\ pc = "returned"
    /\ Len(pages) >= 2
    /\ pages[Len(pages)] = 0
    /\ Len(requests) = Len(pages)

\* C4: the count a paginated fetch reports never exceeds max_records.
C4_CountWithinBudget ==
    (auto_paginate /\ pc = "returned") => result.count <= max_records

\* C8: with max_records = 0 a paginated fetch sends no request and returns
\* an empty observation list with count 0.
C8_ZeroBudget ==
    (auto_paginate /\ pc # "idle" /\ max_records = 0) =>
        /\ requests = <<>>
        /\ pc \in {"while", "break", "returned"}
        /\ pc = "returned" => (result.value = <<>> /\ result.count = 0)

\* C8 witness: a fetch with max_records = 0 has returned.
C8_Witness ==
    auto_paginate /\ pc = "returned" /\ max_records = 0 /\ requests = <<>>

\* Blank: nothing but whitespace.
IsBlank(q) == \A i \in 1..Len(q) : q[i] \in Whitespace

\* The query the caller typed: the argument of search_indicators_filtered
\* when the search runs for it, of search otherwise.
Typed == IF ipc # "idle" THEN iquery ELSE query

\* C7: the search field of the request is the default term when the query
\* is empty, blank or "*", and the query itself otherwise.
C7_DegenerateQuery ==
    \A i \in 1..Len(posts) :
        posts[i].search =
            IF Len(Typed) = 0 \/ IsBlank(Typed) \/ Typed = <<"*">>
            THEN <<"G", "D", "P">>
            ELSE Typed

\* C7 witness: a blank, non-empty query was sent as the default term.
C7_Witness ==
    /\ Len(posts) = 1
    /\ ipc = "idle"
    /\ Len(query) = MaxQueryLen
    /\ IsBlank(query)
    /\ posts[1].search = DefaultTerm

\* C9: a search whose request failed still returns, with the empty result
\* (no match, count 0), and has sent one request only.
C9_SearchNeverRaises ==
    /\ spc # "raised"
    /\ Len(posts) <= 1
    /\ (spc = "returned" /\ answers = <<"error">>) =>
          /\ sresult.value = <<>>
          /\ sresult.has_count /\ sresult.count = 0
          /\ Len(posts) = 1

\* C9 witness: a search returned after its request failed.
C9_Witness ==
    spc = "returned" /\ answers = <<"error">> /\ sresult = EmptyResult

\* C10: a session returns a result only when every request was answered by a
\* page; the first failed request ends it with the error raised, no result
\* and no request after the failed one.
C10_FailurePropagates ==
    /\ (auto_paginate /\ pc \in {"break", "returned"}) => Len(requests) = Len(pages)
    /\ (auto_paginate /\ pc = "raised") =>
          /\ Len(requests) = Len(pages) + 1
          /\ result = NoResult

\* C10 witness: the session failed on a later page, after observations had
\* been received.
C10_Witness ==
    auto_paginate /\ pc = "raised" /\ Len(pages) >= 1 /\ SumSeq(pages) >= 1

\* The values of the regions whose get_data returned, one after the other.
RECURSIVE ConcatOk(_)
ConcatOk(os) ==
    IF os = <<>> THEN <<>>
    ELSE (IF os[1].ok THEN os[1].value ELSE <<>>) \o ConcatOk(Tail(os))

\* C5: the fan-out fetch never raises; every region is tried whether or not
\* an earlier one failed, and the result is the concatenation of the
\* observations of the regions whose fetch succeeded, each region's
\* observations being its own.
C5_FanOutIsolation ==
    /\ fpc # "raised"
    /\ fpc \in {"for", "returned"} => Len(outcomes) = fi - 1
    /\ \A i \in 1..Len(outcomes) : \A j \in 1..Len(outcomes[i].value) :
          outcomes[i].value[j][1] = countries[i]
    /\ fpc = "returned" =>
          /\ Len(outcomes) = Len(countries)
          /\ fresult = ConcatOk(outcomes)

\* C5 witness: three regions, the second failed, and the result is the
\* observations of the first and the third.
C5_Witness ==
    /\ fpc = "returned"
    /\ Len(countries) = 3
    /\ outcomes[1].ok /\ ~outcomes[2].ok /\ outcomes[3].ok
    /\ outcomes[1].value # <<>> /\ outcomes[3].value # <<>>
    /\ fresult = outcomes[1].value \o outcomes[3].value

\* The calls before the i-th that had the same key.
Earlier(i) == {j \in 1..(i - 1) : log[j].key = log[i].key}

\* What C6 says of every state: a call is answered from the cache exactly
\* when an entry for its key exists and is younger than 3600 s, and then
\* returns what the previous call with that key returned; a search that runs
\* sends one request; a key has one entry, and after a call that ran the
\* function it holds the value returned, written when the function returned.
CacheState ==
    /\ \A i \in 1..Len(log) :
          /\ log[i].hit <=> (log[i].age >= 0 /\ log[i].age < 3600)
          /\ log[i].hit =>
                /\ Earlier(i) # {}
                /\ log[i].value = log[CHOOSE j \in Earlier(i) : \A l \in Earlier(i) : l <= j].value
    /\ ipc = "returned" => Len(posts) = 1
    /\ \A f \in CachedFunctions : \A e1, e2 \in cache[f] : e1.args = e2.args => e1 = e2
    /\ (cpc = "idle" /\ log # <<>>) =>
          LET last == log[Len(log)]
          IN  ~last.hit =>
                \E e \in cache[last.key[1]] :
                    /\ e.args = last.key[2]
                    /\ e.value = last.value
                    /\ e.created_at = last.at

\* What C6 says of every step: a call answered from the cache sends no
\* request and runs no function, and a call that is not starts the function.
CacheStep ==
    Len(log') > Len(log) =>
        IF log'[Len(log')].hit
        THEN UNCHANGED <<getDataVars, searchVars, fetchVars, filteredVars, metaVars,
                         cache>>
        ELSE /\ cpc' = "miss"
             /\ \/ fpc' = "for"
                \/ ipc' = "call" /\ Len(posts') = 1
                \/ mpc' = "search" /\ Len(posts') = 1

C6_HitAtLastSecond ==
    /\ Len(log) = 2
    /\ log[1].key = log[2].key
    /\ ~log[1].hit /\ log[2].hit
    /\ log[2].age = 3599

\* A result is marked truncated when it carries a truncation key that is set.
MarkedTruncated(res) == "truncated" \in DOMAIN res /\ res.truncated

\* C11: a paginated fetch for a selector with at least max_records records
\* that has accumulated max_records observations or more (the Truncated
\* terminal state) returns a result that is marked truncated.
C11_TruncatedMarked ==
    (auto_paginate /\ pc = "returned"
        /\ total_count >= max_records /\ Len(all_data) >= max_records)
        => MarkedTruncated(result)

\* The observations of the regions tried so far from the i-th on: for each
\* region, in the order of the countries argument, the observations its
\* fetch returned, in the order the endpoint served them.
RECURSIVE RegionsInOrder(_)
RegionsInOrder(i) ==
    IF i > Len(outcomes) THEN <<>>
    ELSE Batch(countries[i], 0, Len(outcomes[i].value)) \o RegionsInOrder(i + 1)

\* C12: the accumulator of a paginated fetch holds the observations in the
\* order served (page after page, and inside a page as served), and the
\* merged sequence of the fan-out fetch lists the regions in the order of
\* the countries argument, each region's observations in the order its
\* fetch returned them.
C12_OrderPreserved ==
    /\ all_data = Batch(ref_area, 0, Len(all_data))
    /\ (auto_paginate /\ pc = "returned") =>
          result.value = Batch(ref_area, 0, Len(result.value))
    /\ fpc \in {"for", "returned"} => merged = RegionsInOrder(1)
    /\ fpc = "returned" => fresult = RegionsInOrder(1)

\* C12 witness: "XYZ" was listed before "USA"; the result holds the three
\* observations of "XYZ", received in two pages, before those of "USA".
C12_Witness ==
    /\ fpc = "returned"
    /\ countries = <<"XYZ", "USA">>
    /\ Len(outcomes[1].value) = 3
    /\ Len(outcomes[2].value) >= 1
    /\ fresult = <<<<"XYZ", 1>>, <<"XYZ", 2>>, <<"XYZ", 3>>>> \o outcomes[2].value
    /\ fresult[4] = <<"USA", 1>>

\* How often observation o occurs in the sequence s.
Occurrences(s, o) == Cardinality({p \in 1..Len(s) : s[p] = o})

\* The number of observations the regions tried so far returned, and how
\* often o is among them.
RECURSIVE ReturnedLen(_)
ReturnedLen(i) ==
    IF i > Len(outcomes) THEN 0
    ELSE (IF outcomes[i].ok THEN Len(outcomes[i].value) ELSE 0) + ReturnedLen(i + 1)

RECURSIVE ReturnedOccurrences(_, _)
ReturnedOccurrences(i, o) ==
    IF i > Len(outcomes) THEN 0
    ELSE (IF outcomes[i].ok THEN Occurrences(outcomes[i].value, o) ELSE 0)
            + ReturnedOccurrences(i + 1, o)

\* The observations the endpoint can serve in the model.
Observations == Regions \X (1..(MaxRequests * MaxPage))

\* C13: the fan-out fetch removes no duplicate: its result is as long as
\* the results of the regions that succeeded taken together, and every
\* observation occurs in it as often as the regions returned it.
C13_NoDeduplication ==
    fpc = "returned" =>
        /\ Len(fresult) = ReturnedLen(1)
        /\ \A o \in Observations : Occurrences(fresult, o) = ReturnedOccurrences(1, o)

\* C13 witness: "USA" was listed twice, both fetches returned its first
\* observation, and the result holds it twice.
C13_Witness ==
    /\ fpc = "returned"
    /\ countries = <<"USA", "USA">>
    /\ outcomes[1].ok /\ outcomes[2].ok
    /\ outcomes[1].value # <<>> /\ outcomes[2].value # <<>>
    /\ Occurrences(fresult, <<"USA", 1>>) = 2

\* C14: a call with auto_paginate=False sends exactly one request, without a
\* skip parameter, whatever max_records is, and returns the decoded body of
\* the response as it is: every observation of the page, even beyond
\* max_records, with the body's count when it has one, and neither the
\* accumulator's count nor a total_count.
C14_SinglePage ==
    (~auto_paginate /\ pc # "idle") =>
        /\ requests = <<None>>
        /\ all_data = <<>> /\ total_count = None /\ ~paced
        /\ pc \in {"single", "returned", "raised"}
        /\ pc = "returned" =>
              /\ pages = <<body.n>>
              /\ result.value = [i \in 1..body.n |-> <<ref_area, i>>]
              /\ DOMAIN result = IF body.has_count THEN {"count", "value"} ELSE {"value"}
              /\ body.has_count => result.count = body.count

\* C14 witness: with max_records = 0 one request was sent and its page of
\* 100 observations, with a count that differs, was returned whole.
C14_Witness ==
    /\ ~auto_paginate
    /\ pc = "returned"
    /\ max_records = 0
    /\ requests = <<None>>
    /\ Len(result.value) = 100
    /\ body.has_count /\ result.count = 237

\* C15: each cached function has a cache of its own: a call is only ever
\* answered from an entry the same function wrote, and an entry another
\* function wrote for equal arguments does not make it a hit.
C15_IndependentCaches ==
    /\ \A f \in CachedFunctions : \A e \in cache[f] : e.by = f
    /\ \A i \in 1..Len(log) :
          /\ log[i].hit => log[i].from = log[i].key[1]
          /\ log[i].hit => \E j \in 1..(i - 1) : log[j].key = log[i].key

\* C15 witness: the metadata listing was called and stored for a database
\* id; the search then called with the same string as its query, while that
\* entry was fresh, ran its own request.
C15_Witness ==
    /\ Len(log) = 2
    /\ log[1].key[1] = "get_indicators_with_metadata"
    /\ log[2].key[1] = "search_indicators_filtered"
    /\ log[1].key[2] = log[2].key[2]
    /\ log[1].done
    /\ \E e \in cache["get_indicators_with_metadata"] :
          e.args = log[2].key[2] /\ Fresh(e, log[2].at)
    /\ ~log[2].hit
    /\ ipc = "call" /\ Len(posts) = 1

\* C16: a cached call whose body had a request fail writes no entry for its
\* key, and no call is answered from the result of a call whose request
\* failed.
C16_EntryOnlyOnSuccess ==
    /\ (cpc = "idle" /\ log # <<>>) =>
          LET last == log[Len(log)]
          IN  (~last.hit /\ last.failed) =>
                ~\E e \in cache[last.key[1]] :
                    e.args = last.key[2] /\ e.created_at = last.at
    /\ \A i \in 1..Len(log) :
          log[i].hit =>
              LET before == {j \in Earlier(i) : ~log[j].hit}
                  wrote == CHOOSE j \in before : \A l \in before : l <= j
              IN  ~log[wrote].failed

\* C18: at every step of a paginated fetch, also right after a page is
\* appended, the accumulator holds at most max_records observations.
C18_AccumulatorWithinBudget ==
    (auto_paginate /\ pc # "idle") => Len(all_data) <= max_records

\* C19: once a page of a paginated fetch is empty the session is over: no
\* request follows, the session does not raise, and it returns exactly the
\* observations of the pages before, with their number as count.
C19_EmptyPageDone ==
    (auto_paginate /\ pages # <<>> /\ pages[Len(pages)] = 0) =>
        /\ pc \in {"break", "returned"}
        /\ Len(requests) = Len(pages)
        /\ all_data = Batch(ref_area, 0, SumSeq(pages))
        /\ pc = "returned" =>
              /\ result.value = Batch(ref_area, 0, SumSeq(pages))
              /\ result.count = SumSeq(pages)

\* C19 witness: a first page of one observation, with a count of 2 and a
\* budget of 2, then an empty page: the session returned the one observation.
C19_Witness ==
    /\ auto_paginate
    /\ pc = "returned"
    /\ pages = <<1, 0>>
    /\ total_count = 2 /\ max_records = 2
    /\ requests = <<0, 1>>
    /\ result.value = <<<<ref_area, 1>>>>

\* C20: once the total count is known and the accumulator has reached it,
\* the session is over and no request follows; and after a non-empty page
\* that leaves the accumulator below both the total count and max_records
\* the session goes on: the loop test holds and the next request, with
\* skip = len(accumulated), is what follows.
C20_TotalReached ==
    /\ (auto_paginate /\ total_count # None /\ Len(all_data) >= total_count) =>
          /\ pc \in {"break", "returned"}
          /\ Len(requests) = Len(pages)
    /\ (auto_paginate /\ pc \in {"while", "await", "break", "returned"}
            /\ pages # <<>> /\ pages[Len(pages)] > 0
            /\ Len(all_data) < total_count /\ Len(all_data) < max_records) =>
          \/ /\ pc = "while"
             /\ LoopTest(all_data, max_records)
             /\ skip = Len(all_data)
             /\ Len(requests) = Len(pages)
          \/ /\ pc = "await"
             /\ Len(requests) = Len(pages) + 1
             /\ requests[Len(requests)] = Len(all_data)

\* C20 witness: the mock endpoint reported 237 records; a request followed
\* the pages that left the accumulator at 100 and at 200, and none followed
\* the page that brought it to 237.
C20_Witness ==
    /\ auto_paginate
    /\ endpoint = "mock"
    /\ pc = "returned"
    /\ total_count = 237
    /\ max_records > 237
    /\ pages = <<100, 100, 37>>
    /\ requests = <<0, 100, 200>>

\* C21: when the first response reports a count of 0 but carries
\* observations, the session is not ended by that count: it only ends on an
\* empty page or when the accumulator has reached max_records.
C21_ItemsOverZeroTotal ==
    (auto_paginate /\ pc \in {"break", "returned"}
        /\ Len(pages) = 1 /\ pages[1] > 0
        /\ body.has_count /\ body.count = 0) =>
            \/ pages[Len(pages)] = 0
            \/ Len(all_data) >= max_records

\* A response after the first one of a paginated session is decoded.
LaterResponse ==
    auto_paginate /\ pc = "await" /\ pages # <<>> /\ Len(pages') = Len(pages) + 1

\* C22: total_count is set by the first response of a session, to its count
\* (0 when it has none); a later response leaves it as it is whatever count
\* it reports, the test that ends the session uses it, and it is the
\* total_count returned.
C22_TotalFromFirstPage ==
    /\ [][LaterResponse => total_count' = total_count]_vars
    /\ [](auto_paginate /\ Len(pages) = 1 /\ pc # "raised"
            => total_count = GetCount(body))
    /\ [](auto_paginate /\ pc = "returned" =>
            /\ result.total_count = total_count
            /\ (pages # <<>> /\ pages[Len(pages)] > 0
                    /\ Len(all_data) < max_records)
                        => Len(all_data) >= total_count)

\* C22 witness: the first response reported 2 records and one observation,
\* the second reported another count; 2 stayed the total, ended the session
\* and was returned.
C22_Witness ==
    /\ auto_paginate
    /\ pc = "returned"
    /\ pages = <<1, 1>>
    /\ body.has_count /\ body.count # 2
    /\ max_records > 2
    /\ total_count = 2
    /\ result.total_count = 2

\* C23: the skip offsets requested by one pagination session start at 0 and
\* are strictly increasing, and a request is sent only when every earlier
\* request of the session has been answered.
C23_OffsetsIncrease ==
    (auto_paginate /\ requests # <<>>) =>
        /\ requests[1] = 0
        /\ \A i \in 1..Len(requests) : \A j \in 1..Len(requests) :
                i < j => requests[i] < requests[j]
        /\ Len(requests) = Len(pages) + (IF pc \in {"await", "raised"} THEN 1 ELSE 0)

\* C23 witness: a second request has been sent, after the answer to the first.
C23_Witness ==
    /\ auto_paginate
    /\ pc = "await"
    /\ Len(requests) = 2
    /\ Len(pages) = 1
    /\ requests[2] = pages[1]

\* A request is sent after an earlier request of the same operation: a later
\* page of a session, or the first page of a later region of the fan-out.
SuccessiveRequest ==
    /\ pc = "while" /\ pc' = "await"
    /\ requests # <<>> \/ (fpc = "call" /\ fi > 1)

\* C24: a pacing delay has run between every two successive requests, inside
\* one pagination loop and from one region of a fan-out to the next.
C24_PacedBetweenRequests == [][SuccessiveRequest => paced]_vars

\* The selector of params q: every parameter but skip.
SelectorOf(q) == [k \in DOMAIN q \ {"skip"} |-> q[k]]

\* C25: every request of a paginated session carries the database, indicator,
\* region and time period parameters the call was given, the same as the
\* first request, and its own skip.
C25_SelectorReadOnly ==
    auto_paginate =>
        /\ Len(sent) = Len(requests)
        /\ \A i \in 1..Len(sent) :
              /\ SelectorOf(sent[i]) = BuildParams(ref_area)
              /\ SelectorOf(sent[i]) = SelectorOf(sent[1])
              /\ "skip" \in DOMAIN sent[i]
              /\ sent[i]["skip"] = requests[i]

\* C25 witness: the second request of a session for XYZ is in flight, with
\* another skip than the first.
C25_Witness ==
    /\ auto_paginate
    /\ pc = "await"
    /\ Len(sent) = 2
    /\ sent[2]["REF_AREA"] = "XYZ"
    /\ sent[1]["skip"] # sent[2]["skip"]

\* The requests of the running session that have no answer yet.
InFlight == Len(requests) - Len(pages) - (IF pc = "raised" THEN 1 ELSE 0)

\* C26: the fan-out is sequential.  The loop moves to the next region only
\* when the session of the current region has returned or raised, with every
\* one of its requests answered; the requests of the running session are
\* those of the current region, the earlier regions all have their outcome,
\* and at most one request is in flight.
C26_FanOutSequential ==
    /\ [][(fpc = "call" /\ fi' = fi + 1) =>
              (pc \in {"returned", "raised"} /\ InFlight = 0)]_vars
    /\ [](fpc \in {"for", "call"} => Len(outcomes) = fi - 1)
    /\ [](fpc = "call" =>
              \A i \in 1..Len(sent) : sent[i]["REF_AREA"] = countries[fi])
    /\ [](InFlight \in {0, 1} /\ (InFlight = 1 <=> pc = "await"))

\* C26 witness: the first request for the second region is in flight after
\* the session of the first region returned a page.
C26_Witness ==
    /\ fpc = "call"
    /\ fi = 2
    /\ countries[1] # countries[2]
    /\ outcomes[1].ok /\ outcomes[1].value # <<>>
    /\ pc = "await"
    /\ requests = <<0>>

\* C27: a paginated fetch terminates whatever the endpoint returns, when every
\* HTTP call returns or fails.  With max_records >= 1 it sends at most
\* max_records requests: while the session goes on, every page received has
\* added an observation and the accumulator is below max_records (so it is the
\* budget, not RequestCap, that stops the requests).
C27_Terminates ==
    /\ (pc \in {"while", "await", "break"}) ~> (pc \in {"returned", "raised"})
    /\ [](max_records >= 1 => Len(requests) <= max_records)
    /\ [](pc \in {"while", "await"} =>
            /\ Len(pages) <= Len(all_data)
            /\ Len(all_data) < max_records \/ pc = "while")
    /\ []((pc = "while" /\ LoopTest(all_data, max_records))
            => Len(requests) < RequestCap)

\* C27 witness: a session with budget 2 has returned after two requests, each
\* answered by a page of one observation.
C27_Witness ==
    /\ auto_paginate
    /\ pc = "returned"
    /\ endpoint = "any"
    /\ max_records = 2
    /\ requests = <<0, 1>>
    /\ pages = <<1, 1>>

\* The loop of the fan-out leaves the call for the current region.
RegionDone == fpc = "call" /\ fi' = fi + 1

\* C28: a region contributes all or nothing.  A region whose session raised
\* leaves the merged sequence as it was, whatever pages the session had
\* received; a region is merged only when its session returned with every
\* request answered, and then all the observations of its pages are appended.
C28_AllOrNothing ==
    /\ [][RegionDone =>
            IF pc = "raised"
            THEN merged' = merged /\ all_data = <<>>
            ELSE /\ pc = "returned"
                 /\ Len(requests) = Len(pages)
                 /\ merged' = merged \o Batch(countries[fi], 0, SumSeq(pages))]_vars
    /\ [](fpc = "returned" => fresult = merged /\ Len(fresult) = ReturnedLen(1))

\* C28 witness: the session of the second region failed on its second page,
\* after a first page with observations; the merged sequence holds the first
\* region's observations only, and the except clause leaves it so.
C28_Witness ==
    /\ fpc = "call"
    /\ fi = 2
    /\ Len(countries) = 2
    /\ pc = "raised"
    /\ Len(requests) = 2
    /\ Len(pages) = 1 /\ pages[1] > 0
    /\ outcomes[1].ok /\ outcomes[1].value # <<>>
    /\ merged = outcomes[1].value
    /\ ENABLED (FetchExcept /\ fresult' = fresult /\ merged' = outcomes[1].value)

\* C29: when the first response of a paginated fetch has no count field the
\* total is 0: the session sends no second request and returns the first
\* page, cut to max_records.
C29_NoCountOnePage ==
    (auto_paginate /\ Len(pages) = 1 /\ ~body.has_count /\ pc # "raised") =>
        /\ total_count = 0
        /\ requests = <<0>>
        /\ pc \in {"break", "returned"}
        /\ pc = "returned" =>
              /\ result.total_count = 0
              /\ result.value = PySlice(Batch(ref_area, 0, pages[1]), max_records)

\* C29 witness: the scripted endpoint, which would serve 237 records, left
\* the count out of its first response; the session returned the first 100.
C29_Witness ==
    /\ auto_paginate
    /\ pc = "returned"
    /\ endpoint = "mock"
    /\ max_records = 237
    /\ ~body.has_count
    /\ requests = <<0>>
    /\ pages = <<100>>
    /\ result.total_count = 0
    /\ Len(result.value) = 100

\* C30: get_indicators_with_metadata does not raise and returns at most limit
\* indicators.  GET /indicators is sent, once, exactly when the search gave no
\* record with an identifier (as when it failed and gave the empty result);
\* when that request fails the empty list is returned.
C30_MetaListing ==
    /\ mpc # "raised"
    /\ mpc = "search" => spc # "raised"
    /\ mpc = "returned" => Len(mresult) <= limit
    /\ Len(lists) <= 1
    /\ mpc = "search" => lists = <<>>
    /\ (mpc = "list" \/ lists # <<>>) => MetaIndicators(sresult.value) = <<>>
    /\ (mpc = "returned" /\ lists = <<>>) => MetaIndicators(sresult.value) # <<>>
    /\ (mpc = "returned" /\ lists = <<"error">>) => mresult = <<>>

\* C30 witness: the search failed, GET /indicators listed the identifiers and
\* one indicator, the limit, was returned.
C30_Witness ==
    /\ mpc = "returned"
    /\ limit = 1
    /\ answers = <<"error">>
    /\ sresult = EmptyResult
    /\ lists = <<"ok">>
    /\ mresult = <<[id |-> "I1"]>>

====
